---- MODULE Spec2Model ----
(***************************************************************************)
(* EXTI line ownership and dispatch of Firmware/Drivers/STM32/             *)
(* stm32_gpio.cpp: Stm32Gpio::subscribe, Stm32Gpio::unsubscribe,           *)
(* maybe_handle and the EXTIx_IRQHandler entry points, one action per      *)
(* memory access, together with the EXTI edge detector that sets the       *)
(* pending register.                                                       *)
(*                                                                         *)
(* Registers are sets of bit numbers (bit n set  <=>  n \in REG), so       *)
(* REG |= mask is REG \cup mask and REG &= ~mask is REG \ mask.  A         *)
(* read-modify-write of a register is two actions: the load into a local   *)
(* and the store of the modified local.                                    *)
(***************************************************************************)
EXTENDS Integers, Sequences, FiniteSets, TLC

\* #define N_EXTI 16
N_EXTI == 16

\* Bound: the count of raised and not yet delivered pending flags of a line
\* saturates here (and at -1 below).
MaxDue == 2

Lines == 0 .. (N_EXTI - 1)

Null == "nullptr"
Ports == {"GPIOA", "GPIOB"}
Callbacks == {"cb1", "cb2"}
Contexts == {"x1", "x2"}

\* Execution contexts: application threads, an application interrupt of a
\* priority above the EXTI interrupts, and one context per EXTI entry point.
Threads == {"thr", "thr2"}
AppIsrs == {"isr"}
AppCtx == Threads \cup AppIsrs
IrqCtx == {"EXTI0", "EXTI1", "EXTI2", "EXTI3", "EXTI4", "EXTI9_5", "EXTI15_10"}
AllCtx == AppCtx \cup IrqCtx

VARIABLES
    subscriptions,  \* subscription_t subscriptions[N_EXTI]
    EXTICR,         \* SYSCFG->EXTICR[4], four 4-bit fields each
    RTSR, FTSR,     \* EXTI rising / falling trigger selection
    EMR, IMR,       \* EXTI event mask / interrupt mask (1 = not masked)
    PR,             \* EXTI pending register
    level,          \* input level of each EXTI line
    pc,             \* position of every execution context
    call,           \* locals of a subscribe/unsubscribe call, per context
    irq,            \* locals of a handler invocation, per entry point
    held,           \* history: binding of the outstanding successful subscribe
    cancelled,      \* history: callbacks that unsubscribe removed from the slot
                    \* and no subscribe has stored there again
    due             \* history: pending flags raised on an owned line since its
                    \* last clear by subscribe/unsubscribe, minus callbacks invoked

hw == <<EXTICR, RTSR, FTSR, EMR, IMR, PR>>
ghost == <<held, cancelled, due>>
vars == <<subscriptions, EXTICR, RTSR, FTSR, EMR, IMR, PR, level, pc, call, irq,
          held, cancelled, due>>

NoSub == [port |-> Null, callback |-> Null, ctx |-> Null]

\* The arguments of a subscribe call: the handle's port and pin, and the rest.
Args(port, pin, rising_edge, falling_edge, callback, ctx) ==
    [port |-> port, pin |-> pin, rising |-> rising_edge, falling |-> falling_edge,
     callback |-> callback, ctx |-> ctx]

NoArgs == Args(Null, 0, FALSE, FALSE, Null, Null)

IdleCall == [op |-> "none", port |-> Null, pin |-> 0, rising |-> FALSE,
             falling |-> FALSE, callback |-> Null, ctx |-> Null,
             temp |-> <<>>, acc |-> {}, res |-> "none"]

IdleIrq == [idx |-> 0, cb |-> Null, arg |-> Null]

\* pin_mask_ of a handle whose get_pin_number() is pin
pin_mask(pin) == {pin}

\* GPIO_GET_INDEX(port_)
GPIO_GET_INDEX(port) == IF port = "GPIOA" THEN 0 ELSE 1

\* The lines an entry point polls, in order.
Handler(q) ==
    CASE q = "EXTI0" -> <<0>>
      [] q = "EXTI1" -> <<1>>
      [] q = "EXTI2" -> <<2>>
      [] q = "EXTI3" -> <<3>>
      [] q = "EXTI4" -> <<4>>
      [] q = "EXTI9_5" -> <<5, 6, 7, 8, 9>>
      [] q = "EXTI15_10" -> <<10, 11, 12, 13, 14, 15>>

Init ==
    /\ subscriptions = [n \in Lines |-> NoSub]
    /\ EXTICR = [k \in 0 .. 3 |-> [j \in 0 .. 3 |-> 0]]
    /\ RTSR = {}
    /\ FTSR = {}
    /\ EMR = {}
    /\ IMR = {}
    /\ PR = {}
    /\ level = [n \in Lines |-> 0]
    /\ pc = [c \in AllCtx |-> "idle"]
    /\ call = [c \in AppCtx |-> IdleCall]
    /\ irq = [q \in IrqCtx |-> IdleIrq]
    /\ held = [n \in Lines |-> NoArgs]
    /\ cancelled = [n \in Lines |-> {}]
    /\ due = [n \in Lines |-> 0]


----------------------------------------------------------------------------
(* Stm32Gpio::subscribe                                                     *)

Line(c) == call[c].pin

\* pin_mask_ of the call's handle; the unbound handle Stm32Gpio::none is
\* {nullptr, 0}: no port, an empty mask, and pin number 0.
Mask(c) == IF call[c].port = Null THEN {} ELSE pin_mask(call[c].pin)

\* Mutant: the range check admits line N_EXTI.
SubscribeCall_Inclusive(c, port, pin, rising_edge, falling_edge, callback, ctx) ==
    /\ pc[c] = "idle"
    /\ pc' = [pc EXCEPT ![c] = IF pin > N_EXTI THEN "ret" ELSE "s_cas"]
    /\ call' = [call EXCEPT ![c] =
                  [IdleCall EXCEPT !.op = "subscribe", !.port = port, !.pin = pin,
                                   !.rising = rising_edge, !.falling = falling_edge,
                                   !.callback = callback, !.ctx = ctx,
                                   !.res = IF pin > N_EXTI THEN "false" ELSE "none"]]
    /\ UNCHANGED <<subscriptions, hw, level, irq, ghost>>

\* The call with its handle (port_, pin_mask_) and four arguments, up to
\* if (pin_number >= N_EXTI) return false;
SubscribeCall(c, port, pin, rising_edge, falling_edge, callback, ctx) ==
    /\ pc[c] = "idle"
    /\ pc' = [pc EXCEPT ![c] = IF pin >= N_EXTI THEN "ret" ELSE "s_cas"]
    /\ call' = [call EXCEPT ![c] =
                  [IdleCall EXCEPT !.op = "subscribe", !.port = port, !.pin = pin,
                                   !.rising = rising_edge, !.falling = falling_edge,
                                   !.callback = callback, !.ctx = ctx,
                                   !.res = IF pin >= N_EXTI THEN "false" ELSE "none"]]
    /\ UNCHANGED <<subscriptions, hw, level, irq, ghost>>

\* Mutant: the claim also succeeds on a slot the caller's port already owns.
SubscribeClaim_Reentrant(c) ==
    /\ pc[c] = "s_cas"
    /\ IF subscriptions[Line(c)].port \in {Null, call[c].port}
         THEN /\ subscriptions' = [subscriptions EXCEPT ![Line(c)].port = call[c].port]
              /\ pc' = [pc EXCEPT ![c] = "s_rd_exticr"]
              /\ call' = call
         ELSE /\ subscriptions' = subscriptions
              /\ pc' = [pc EXCEPT ![c] = "ret"]
              /\ call' = [call EXCEPT ![c].res = "false"]
    /\ UNCHANGED <<hw, level, irq, ghost>>

\* Mutant: the exchange fails only on a slot the caller's port already owns.
SubscribeClaim_Takeover(c) ==
    /\ pc[c] = "s_cas"
    /\ IF subscriptions[Line(c)].port # call[c].port
         THEN /\ subscriptions' = [subscriptions EXCEPT ![Line(c)].port = call[c].port]
              /\ pc' = [pc EXCEPT ![c] = "s_rd_exticr"]
              /\ call' = call
         ELSE /\ subscriptions' = subscriptions
              /\ pc' = [pc EXCEPT ![c] = "ret"]
              /\ call' = [call EXCEPT ![c].res = "false"]
    /\ UNCHANGED <<hw, level, irq, ghost>>

\* Mutant: the callback is stored with the claim, before the line is
\* configured.
SubscribeClaim_Early(c) ==
    /\ pc[c] = "s_cas"
    /\ IF subscriptions[Line(c)].port = Null
         THEN /\ subscriptions' = [subscriptions EXCEPT ![Line(c)].port = call[c].port,
                                                       ![Line(c)].callback = call[c].callback]
              /\ pc' = [pc EXCEPT ![c] = "s_rd_exticr"]
              /\ call' = call
         ELSE /\ subscriptions' = subscriptions
              /\ pc' = [pc EXCEPT ![c] = "ret"]
              /\ call' = [call EXCEPT ![c].res = "false"]
    /\ UNCHANGED <<hw, level, irq, ghost>>

\* Mutant: an exchange that stores port_ whatever it finds and fails on a
\* slot that was owned.
SubscribeClaim_Clobber(c) ==
    /\ pc[c] = "s_cas"
    /\ subscriptions' = [subscriptions EXCEPT ![Line(c)].port = call[c].port]
    /\ IF subscriptions[Line(c)].port = Null
         THEN /\ pc' = [pc EXCEPT ![c] = "s_rd_exticr"]
              /\ call' = call
         ELSE /\ pc' = [pc EXCEPT ![c] = "ret"]
              /\ call' = [call EXCEPT ![c].res = "false"]
    /\ UNCHANGED <<hw, level, irq, ghost>>

\* Mutant: a plain store of port_ instead of the compare-and-exchange.
SubscribeClaim_Store(c) ==
    /\ pc[c] = "s_cas"
    /\ subscriptions' = [subscriptions EXCEPT ![Line(c)].port = call[c].port]
    /\ pc' = [pc EXCEPT ![c] = "s_rd_exticr"]
    /\ UNCHANGED <<hw, level, call, irq, ghost>>

\* __atomic_compare_exchange_n(&subscription.port, &no_port, port_, ...)
SubscribeClaim(c) ==
    /\ pc[c] = "s_cas"
    /\ IF subscriptions[Line(c)].port = Null
         THEN /\ subscriptions' = [subscriptions EXCEPT ![Line(c)].port = call[c].port]
              /\ pc' = [pc EXCEPT ![c] = "s_rd_exticr"]
              /\ call' = call
         ELSE /\ subscriptions' = subscriptions
              /\ pc' = [pc EXCEPT ![c] = "ret"]
              /\ call' = [call EXCEPT ![c].res = "false"]
    /\ UNCHANGED <<hw, level, irq, ghost>>

\* uint32_t temp = SYSCFG->EXTICR[pin_number >> 2U];
SubscribeReadExticr(c) ==
    /\ pc[c] = "s_rd_exticr"
    /\ call' = [call EXCEPT ![c].temp = EXTICR[Line(c) \div 4]]
    /\ pc' = [pc EXCEPT ![c] = "s_wr_exticr"]
    /\ UNCHANGED <<subscriptions, hw, level, irq, ghost>>

\* temp &= ~(0x0F << ...); temp |= GPIO_GET_INDEX(port_) << ...; EXTICR[..] = temp;
SubscribeWriteExticr(c) ==
    /\ pc[c] = "s_wr_exticr"
    /\ EXTICR' = [EXTICR EXCEPT ![Line(c) \div 4] =
                    [call[c].temp EXCEPT ![Line(c) % 4] = GPIO_GET_INDEX(call[c].port)]]
    /\ call' = [call EXCEPT ![c].temp = <<>>]
    /\ pc' = [pc EXCEPT ![c] = "s_rd_rtsr"]
    /\ UNCHANGED <<subscriptions, RTSR, FTSR, EMR, IMR, PR, level, irq, ghost>>

\* The load of a register into the accumulator of an |= or &=.
Load(c, reg, from, to) ==
    /\ pc[c] = from
    /\ call' = [call EXCEPT ![c].acc = reg]
    /\ pc' = [pc EXCEPT ![c] = to]
    /\ UNCHANGED <<subscriptions, hw, level, irq, ghost>>

SubscribeReadRtsr(c) == Load(c, RTSR, "s_rd_rtsr", "s_wr_rtsr")

\* Mutant: no else branch, the rising trigger is only ever set.
SubscribeWriteRtsr_Or(c) ==
    /\ pc[c] = "s_wr_rtsr"
    /\ RTSR' = IF call[c].rising THEN call[c].acc \cup Mask(c) ELSE call[c].acc
    /\ call' = [call EXCEPT ![c].acc = {}]
    /\ pc' = [pc EXCEPT ![c] = "s_rd_ftsr"]
    /\ UNCHANGED <<subscriptions, EXTICR, FTSR, EMR, IMR, PR, level, irq, ghost>>

\* if (rising_edge) EXTI->RTSR |= pin_mask_; else EXTI->RTSR &= ~pin_mask_;
SubscribeWriteRtsr(c) ==
    /\ pc[c] = "s_wr_rtsr"
    /\ RTSR' = IF call[c].rising THEN call[c].acc \cup Mask(c) ELSE call[c].acc \ Mask(c)
    /\ call' = [call EXCEPT ![c].acc = {}]
    /\ pc' = [pc EXCEPT ![c] = "s_rd_ftsr"]
    /\ UNCHANGED <<subscriptions, EXTICR, FTSR, EMR, IMR, PR, level, irq, ghost>>

SubscribeReadFtsr(c) == Load(c, FTSR, "s_rd_ftsr", "s_wr_ftsr")

\* Mutant: the falling trigger is selected whatever falling_edge says.
SubscribeWriteFtsr_Set(c) ==
    /\ pc[c] = "s_wr_ftsr"
    /\ FTSR' = call[c].acc \cup Mask(c)
    /\ call' = [call EXCEPT ![c].acc = {}]
    /\ pc' = [pc EXCEPT ![c] = "s_rd_emr"]
    /\ UNCHANGED <<subscriptions, EXTICR, RTSR, EMR, IMR, PR, level, irq, ghost>>

\* if (falling_edge) EXTI->FTSR |= pin_mask_; else EXTI->FTSR &= ~pin_mask_;
SubscribeWriteFtsr(c) ==
    /\ pc[c] = "s_wr_ftsr"
    /\ FTSR' = IF call[c].falling THEN call[c].acc \cup Mask(c) ELSE call[c].acc \ Mask(c)
    /\ call' = [call EXCEPT ![c].acc = {}]
    /\ pc' = [pc EXCEPT ![c] = "s_rd_emr"]
    /\ UNCHANGED <<subscriptions, EXTICR, RTSR, EMR, IMR, PR, level, irq, ghost>>

SubscribeReadEmr(c) == Load(c, EMR, "s_rd_emr", "s_wr_emr")

\* EXTI->EMR &= ~pin_mask_;
SubscribeWriteEmr(c) ==
    /\ pc[c] = "s_wr_emr"
    /\ EMR' = call[c].acc \ Mask(c)
    /\ call' = [call EXCEPT ![c].acc = {}]
    /\ pc' = [pc EXCEPT ![c] = "s_rd_imr"]
    /\ UNCHANGED <<subscriptions, EXTICR, RTSR, FTSR, IMR, PR, level, irq, ghost>>

SubscribeReadImr(c) == Load(c, IMR, "s_rd_imr", "s_wr_imr")

\* EXTI->IMR |= pin_mask_;
SubscribeWriteImr(c) ==
    /\ pc[c] = "s_wr_imr"
    /\ IMR' = call[c].acc \cup Mask(c)
    /\ call' = [call EXCEPT ![c].acc = {}]
    /\ pc' = [pc EXCEPT ![c] = "s_clr"]
    /\ UNCHANGED <<subscriptions, EXTICR, RTSR, FTSR, EMR, PR, level, irq, ghost>>

\* __HAL_GPIO_EXTI_CLEAR_IT(mask): EXTI->PR = mask, write one to clear
EXTI_CLEAR_IT(mask) == PR \ mask

\* __HAL_GPIO_EXTI_CLEAR_IT(pin_mask_);
SubscribeClearPending(c) ==
    /\ pc[c] = "s_clr"
    /\ PR' = EXTI_CLEAR_IT(Mask(c))
    /\ due' = [n \in Lines |-> IF n \in Mask(c) THEN 0 ELSE due[n]]
    /\ pc' = [pc EXCEPT ![c] = "s_ctx"]
    /\ UNCHANGED <<subscriptions, EXTICR, RTSR, FTSR, EMR, IMR, level, call, irq,
                   held, cancelled>>

\* subscription.ctx = ctx;
SubscribeStoreCtx(c) ==
    /\ pc[c] = "s_ctx"
    /\ subscriptions' = [subscriptions EXCEPT ![Line(c)].ctx = call[c].ctx]
    /\ pc' = [pc EXCEPT ![c] = "s_cb"]
    /\ UNCHANGED <<hw, level, call, irq, ghost>>

\* subscription.callback = callback; (and the value of "return true")
SubscribeStoreCallback(c) ==
    /\ pc[c] = "s_cb"
    /\ subscriptions' = [subscriptions EXCEPT ![Line(c)].callback = call[c].callback]
    /\ cancelled' = [cancelled EXCEPT ![Line(c)] = @ \ {call[c].callback}]
    /\ call' = [call EXCEPT ![c].res = "true"]
    /\ pc' = [pc EXCEPT ![c] = "ret"]
    /\ UNCHANGED <<hw, level, irq, held, due>>

----------------------------------------------------------------------------
(* Stm32Gpio::unsubscribe                                                   *)

\* The call with its handle, up to if (pin_number >= N_EXTI) return;
UnsubscribeCall(c, port, pin) ==
    /\ pc[c] = "idle"
    /\ pc' = [pc EXCEPT ![c] = IF pin >= N_EXTI THEN "ret" ELSE "u_own"]
    /\ call' = [call EXCEPT ![c] =
                  [IdleCall EXCEPT !.op = "unsubscribe", !.port = port, !.pin = pin,
                                   !.res = IF pin >= N_EXTI THEN "noop" ELSE "none"]]
    /\ UNCHANGED <<subscriptions, hw, level, irq, ghost>>

\* Mutant: no owner check.
UnsubscribeOwner_Any(c) ==
    /\ pc[c] = "u_own"
    /\ pc' = [pc EXCEPT ![c] = "u_rd_imr"]
    /\ held' = [held EXCEPT ![Line(c)] = NoArgs]
    /\ UNCHANGED <<subscriptions, hw, level, call, irq, cancelled, due>>

\* if (subscription.port != port_) return;
UnsubscribeOwner(c) ==
    /\ pc[c] = "u_own"
    /\ IF subscriptions[Line(c)].port # call[c].port
         THEN /\ pc' = [pc EXCEPT ![c] = "ret"]
              /\ call' = [call EXCEPT ![c].res = "noop"]
              /\ held' = held
         ELSE /\ pc' = [pc EXCEPT ![c] = "u_rd_imr"]
              /\ call' = call
              /\ held' = [held EXCEPT ![Line(c)] = NoArgs]
    /\ UNCHANGED <<subscriptions, hw, level, irq, cancelled, due>>

UnsubscribeReadImr(c) == Load(c, IMR, "u_rd_imr", "u_wr_imr")

\* EXTI->IMR |= pin_mask_;
UnsubscribeWriteImr(c) ==
    /\ pc[c] = "u_wr_imr"
    /\ IMR' = call[c].acc \cup Mask(c)
    /\ call' = [call EXCEPT ![c].acc = {}]
    /\ pc' = [pc EXCEPT ![c] = "u_clr"]
    /\ UNCHANGED <<subscriptions, EXTICR, RTSR, FTSR, EMR, PR, level, irq, ghost>>

\* __HAL_GPIO_EXTI_CLEAR_IT(pin_mask_);
UnsubscribeClearPending(c) ==
    /\ pc[c] = "u_clr"
    /\ PR' = EXTI_CLEAR_IT(Mask(c))
    /\ due' = [n \in Lines |-> IF n \in Mask(c) THEN 0 ELSE due[n]]
    /\ pc' = [pc EXCEPT ![c] = "u_cb"]
    /\ UNCHANGED <<subscriptions, EXTICR, RTSR, FTSR, EMR, IMR, level, call, irq,
                   held, cancelled>>

\* The history of the store of line 178: the callback it removes, kept in
\* the call's record until the call returns.
Removes(c) ==
    /\ cancelled' = [cancelled EXCEPT ![Line(c)] =
                        @ \cup ({subscriptions[Line(c)].callback} \ {Null})]
    /\ call' = [call EXCEPT ![c].callback = subscriptions[Line(c)].callback]

\* Mutant: line 178 is missing.
UnsubscribeClearCallback_Skip(c) ==
    /\ pc[c] = "u_cb"
    /\ Removes(c)
    /\ pc' = [pc EXCEPT ![c] = "u_ctx"]
    /\ UNCHANGED <<subscriptions, hw, level, irq, held, due>>

\* Mutant: line 178 clears ctx a second time and leaves the callback.
UnsubscribeClearCallback_Ctx(c) ==
    /\ pc[c] = "u_cb"
    /\ subscriptions' = [subscriptions EXCEPT ![Line(c)].ctx = Null]
    /\ Removes(c)
    /\ pc' = [pc EXCEPT ![c] = "u_ctx"]
    /\ UNCHANGED <<hw, level, irq, held, due>>

\* subscription.callback = nullptr;
UnsubscribeClearCallback(c) ==
    /\ pc[c] = "u_cb"
    /\ subscriptions' = [subscriptions EXCEPT ![Line(c)].callback = Null]
    /\ Removes(c)
    /\ pc' = [pc EXCEPT ![c] = "u_ctx"]
    /\ UNCHANGED <<hw, level, irq, held, due>>

\* subscription.ctx = nullptr;
UnsubscribeClearCtx(c) ==
    /\ pc[c] = "u_ctx"
    /\ subscriptions' = [subscriptions EXCEPT ![Line(c)].ctx = Null]
    /\ pc' = [pc EXCEPT ![c] = "u_port"]
    /\ UNCHANGED <<hw, level, call, irq, ghost>>

\* subscription.port = nullptr;
UnsubscribeRelease(c) ==
    /\ pc[c] = "u_port"
    /\ subscriptions' = [subscriptions EXCEPT ![Line(c)].port = Null]
    /\ call' = [call EXCEPT ![c].res = "done"]
    /\ pc' = [pc EXCEPT ![c] = "ret"]
    /\ UNCHANGED <<hw, level, irq, ghost>>

\* The return of subscribe (true or false) and of unsubscribe to the caller.
Return(c) ==
    /\ pc[c] = "ret"
    /\ pc' = [pc EXCEPT ![c] = "idle"]
    /\ call' = [call EXCEPT ![c] = IdleCall]
    /\ held' = IF call[c].op = "subscribe" /\ call[c].res = "true"
                 THEN [held EXCEPT ![Line(c)] =
                         Args(call[c].port, call[c].pin, call[c].rising,
                              call[c].falling, call[c].callback, call[c].ctx)]
                 ELSE held
    /\ UNCHANGED <<subscriptions, hw, level, irq, cancelled, due>>

----------------------------------------------------------------------------
(* maybe_handle and the EXTIx_IRQHandler entry points                       *)

\* The line the entry point is polling: the argument of maybe_handle.
Polled(q) == Handler(q)[irq[q].idx]

\* The return of maybe_handle: on to the entry point's next call, or out of it.
Advance(q) ==
    IF irq[q].idx < Len(Handler(q))
      THEN /\ irq' = [irq EXCEPT ![q] = [IdleIrq EXCEPT !.idx = irq[q].idx + 1]]
           /\ pc' = [pc EXCEPT ![q] = "d_pend"]
      ELSE /\ irq' = [irq EXCEPT ![q] = IdleIrq]
           /\ pc' = [pc EXCEPT ![q] = "idle"]

\* Entry of EXTIx_IRQHandler, up to its first maybe_handle.
IrqEntry(q) ==
    /\ pc[q] = "idle"
    /\ pc' = [pc EXCEPT ![q] = "d_pend"]
    /\ irq' = [irq EXCEPT ![q] = [IdleIrq EXCEPT !.idx = 1]]
    /\ UNCHANGED <<subscriptions, hw, level, call, ghost>>

\* Mutant: no test of the pending flag.
HandlePending_Always(q) ==
    /\ pc[q] = "d_pend"
    /\ pc' = [pc EXCEPT ![q] = "d_clear"]
    /\ UNCHANGED <<subscriptions, hw, level, call, irq, ghost>>

\* if (__HAL_GPIO_EXTI_GET_IT(1 << exti_number) == RESET) return;
HandlePending(q) ==
    /\ pc[q] = "d_pend"
    /\ IF Polled(q) \notin PR
         THEN Advance(q)
         ELSE /\ pc' = [pc EXCEPT ![q] = "d_clear"]
              /\ irq' = irq
    /\ UNCHANGED <<subscriptions, hw, level, call, ghost>>

\* Mutant: the clear takes the flags of every line of the entry point.
HandleClear_Group(q) ==
    /\ pc[q] = "d_clear"
    /\ PR' = EXTI_CLEAR_IT({Handler(q)[i] : i \in 1 .. Len(Handler(q))})
    /\ pc' = [pc EXCEPT ![q] = "d_test"]
    /\ UNCHANGED <<subscriptions, EXTICR, RTSR, FTSR, EMR, IMR, level, call, irq, ghost>>

\* __HAL_GPIO_EXTI_CLEAR_IT(1 << exti_number); if (exti_number >= N_EXTI) return;
HandleClear(q) ==
    /\ pc[q] = "d_clear"
    /\ PR' = EXTI_CLEAR_IT({Polled(q)})
    /\ IF Polled(q) >= N_EXTI
         THEN Advance(q)
         ELSE /\ pc' = [pc EXCEPT ![q] = "d_test"]
              /\ irq' = irq
    /\ UNCHANGED <<subscriptions, EXTICR, RTSR, FTSR, EMR, IMR, level, call, ghost>>

\* if (subscription.callback)
HandleTest(q) ==
    /\ pc[q] = "d_test"
    /\ IF subscriptions[Polled(q)].callback = Null
         THEN Advance(q)
         ELSE /\ irq' = [irq EXCEPT ![q].cb = subscriptions[Polled(q)].callback]
              /\ pc' = [pc EXCEPT ![q] = "d_load"]
    /\ UNCHANGED <<subscriptions, hw, level, call, ghost>>

\* The operands of (*subscription.callback)(subscription.ctx).  The slot is
\* accessed without synchronisation: the build either keeps the pointer it
\* tested or loads subscription.callback again.
HandleLoad(q) ==
    /\ pc[q] = "d_load"
    /\ \E fn \in {irq[q].cb, subscriptions[Polled(q)].callback} :
          irq' = [irq EXCEPT ![q].cb = fn, ![q].arg = subscriptions[Polled(q)].ctx]
    /\ pc' = [pc EXCEPT ![q] = "d_call"]
    /\ UNCHANGED <<subscriptions, hw, level, call, ghost>>

\* The call itself; a call through a null pointer faults.
HandleCall(q) ==
    /\ pc[q] = "d_call"
    /\ IF irq[q].cb = Null
         THEN /\ pc' = [pc EXCEPT ![q] = "fault"]
              /\ due' = due
         ELSE /\ pc' = [pc EXCEPT ![q] = "d_run"]
              /\ due' = [due EXCEPT ![Polled(q)] = IF @ >= 0 THEN @ - 1 ELSE @]
    /\ UNCHANGED <<subscriptions, hw, level, call, irq, held, cancelled>>

\* Mutant: the pending flag is cleared after the callback instead of before.
CallbackReturn_Clear(q) ==
    /\ pc[q] = "d_run"
    /\ PR' = EXTI_CLEAR_IT({Polled(q)})
    /\ Advance(q)
    /\ UNCHANGED <<subscriptions, EXTICR, RTSR, FTSR, EMR, IMR, level, call, ghost>>

\* The callback returns, and maybe_handle with it.
CallbackReturn(q) ==
    /\ pc[q] = "d_run"
    /\ Advance(q)
    /\ UNCHANGED <<subscriptions, hw, level, call, ghost>>

----------------------------------------------------------------------------
(* The EXTI edge detector                                                   *)

\* The input of line n changes level.  The edge sets the pending flag when
\* its direction is selected in RTSR / FTSR; PR /\ IMR raises the interrupt.
Edge(n) ==
    /\ level' = [level EXCEPT ![n] = 1 - @]
    /\ LET selected == IF level[n] = 0 THEN n \in RTSR ELSE n \in FTSR
           counted == selected /\ n \notin PR /\ subscriptions[n].port # Null
       IN /\ PR' = IF selected THEN PR \cup {n} ELSE PR
          /\ due' = IF counted /\ due[n] < MaxDue THEN [due EXCEPT ![n] = @ + 1] ELSE due
    /\ UNCHANGED <<subscriptions, EXTICR, RTSR, FTSR, EMR, IMR, pc, call, irq,
                   held, cancelled>>

\* The interrupt request of line n to the NVIC.
Raised(n) == n \in PR /\ n \in IMR

----------------------------------------------------------------------------
(* Scheduling                                                               *)

\* Threads run below every interrupt; the EXTI entry points share one
\* priority; the application interrupt preempts them.
Prio(c) == IF c \in Threads THEN 0 ELSE IF c \in IrqCtx THEN 1 ELSE 2

Halted == \E q \in IrqCtx : pc[q] = "fault"

\* Preemptive scheduling of one core: a context runs while no context of a
\* higher (or, between interrupts, equal) priority is inside an operation;
\* threads are time-sliced against each other.
Runnable(c) ==
    /\ ~Halted
    /\ \A d \in AllCtx \ {c} :
          pc[d] # "idle" => \/ Prio(d) < Prio(c)
                            \/ (c \in Threads /\ d \in Threads)

\* Operations run one after the other, each from its call to its return.
Alone(c) == ~Halted /\ \A d \in AllCtx \ {c} : pc[d] = "idle"

Quiet == \A c \in AllCtx : pc[c] = "idle"

\* A call of subscribe with one of the argument tuples of S.
SubscribeAny(c, S) ==
    \E a \in S : SubscribeCall(c, a.port, a.pin, a.rising, a.falling, a.callback, a.ctx)

\* A call of unsubscribe on one of the handles of H.
UnsubscribeAny(c, H) == \E h \in H : UnsubscribeCall(c, h[1], h[2])

----------------------------------------------------------------------------
(* Spec: a thread, the EXTI0 interrupt and an application interrupt of      *)
(* higher priority, under preemptive scheduling: subscribe on PA0,          *)
(* unsubscribe on PA0 and PB0.                                              *)

ConcCtx == {"thr", "isr"}
ConcIrq == {"EXTI0"}
ConcSubs == {Args("GPIOA", 0, TRUE, FALSE, "cb1", "x1")}
ConcPins == {<<"GPIOA", 0>>, <<"GPIOB", 0>>}
ConcLines == {0}

Next ==
    \/ \E c \in ConcCtx : SubscribeAny(c, ConcSubs) /\ Runnable(c)
    \/ \E c \in ConcCtx : SubscribeClaim(c) /\ Runnable(c)
    \/ \E c \in ConcCtx : SubscribeReadExticr(c) /\ Runnable(c)
    \/ \E c \in ConcCtx : SubscribeWriteExticr(c) /\ Runnable(c)
    \/ \E c \in ConcCtx : SubscribeReadRtsr(c) /\ Runnable(c)
    \/ \E c \in ConcCtx : SubscribeWriteRtsr(c) /\ Runnable(c)
    \/ \E c \in ConcCtx : SubscribeReadFtsr(c) /\ Runnable(c)
    \/ \E c \in ConcCtx : SubscribeWriteFtsr(c) /\ Runnable(c)
    \/ \E c \in ConcCtx : SubscribeReadEmr(c) /\ Runnable(c)
    \/ \E c \in ConcCtx : SubscribeWriteEmr(c) /\ Runnable(c)
    \/ \E c \in ConcCtx : SubscribeReadImr(c) /\ Runnable(c)
    \/ \E c \in ConcCtx : SubscribeWriteImr(c) /\ Runnable(c)
    \/ \E c \in ConcCtx : SubscribeClearPending(c) /\ Runnable(c)
    \/ \E c \in ConcCtx : SubscribeStoreCtx(c) /\ Runnable(c)
    \/ \E c \in ConcCtx : SubscribeStoreCallback(c) /\ Runnable(c)
    \/ \E c \in ConcCtx : Return(c) /\ Runnable(c)
    \/ \E c \in ConcCtx : UnsubscribeAny(c, ConcPins) /\ Runnable(c)
    \/ \E c \in ConcCtx : UnsubscribeOwner(c) /\ Runnable(c)
    \/ \E c \in ConcCtx : UnsubscribeReadImr(c) /\ Runnable(c)
    \/ \E c \in ConcCtx : UnsubscribeWriteImr(c) /\ Runnable(c)
    \/ \E c \in ConcCtx : UnsubscribeClearPending(c) /\ Runnable(c)
    \/ \E c \in ConcCtx : UnsubscribeClearCallback(c) /\ Runnable(c)
    \/ \E c \in ConcCtx : UnsubscribeClearCtx(c) /\ Runnable(c)
    \/ \E c \in ConcCtx : UnsubscribeRelease(c) /\ Runnable(c)
    \/ \E q \in ConcIrq : IrqEntry(q) /\ Runnable(q)
    \/ \E q \in ConcIrq : HandlePending(q) /\ Runnable(q)
    \/ \E q \in ConcIrq : HandleClear(q) /\ Runnable(q)
    \/ \E q \in ConcIrq : HandleTest(q) /\ Runnable(q)
    \/ \E q \in ConcIrq : HandleLoad(q) /\ Runnable(q)
    \/ \E q \in ConcIrq : HandleCall(q) /\ Runnable(q)
    \/ \E q \in ConcIrq : CallbackReturn(q) /\ Runnable(q)
    \/ \E n \in ConcLines : Edge(n)

Spec == Init /\ [][Next]_vars

----------------------------------------------------------------------------
(* SpecSeq: one caller; every operation and every interrupt runs from its   *)
(* call to its return before the next starts.  Handles on line 0 (its own   *)
(* entry point), on line 7 (the entry point of lines 5..9) and the          *)
(* out-of-range pin number 16.                                              *)

SeqCtx == {"thr"}
SeqIrq == {"EXTI0", "EXTI9_5"}
SeqSubs ==
    {Args(p, 0, r, f, b[1], b[2]) :
        p \in Ports, r \in BOOLEAN, f \in BOOLEAN, b \in {<<"cb1", "x1">>, <<"cb2", "x2">>}}
    \cup {Args("GPIOA", 7, TRUE, FALSE, "cb2", "x1"), Args("GPIOB", 16, TRUE, TRUE, "cb1", "x2")}
SeqPins == {<<"GPIOA", 0>>, <<"GPIOB", 0>>, <<"GPIOA", 7>>, <<"GPIOB", 7>>, <<"GPIOB", 16>>}
SeqLines == {0, 7}

NextSeq ==
    \/ \E c \in SeqCtx : SubscribeAny(c, SeqSubs) /\ Alone(c)
    \/ \E c \in SeqCtx : SubscribeClaim(c) /\ Alone(c)
    \/ \E c \in SeqCtx : SubscribeReadExticr(c) /\ Alone(c)
    \/ \E c \in SeqCtx : SubscribeWriteExticr(c) /\ Alone(c)
    \/ \E c \in SeqCtx : SubscribeReadRtsr(c) /\ Alone(c)
    \/ \E c \in SeqCtx : SubscribeWriteRtsr(c) /\ Alone(c)
    \/ \E c \in SeqCtx : SubscribeReadFtsr(c) /\ Alone(c)
    \/ \E c \in SeqCtx : SubscribeWriteFtsr(c) /\ Alone(c)
    \/ \E c \in SeqCtx : SubscribeReadEmr(c) /\ Alone(c)
    \/ \E c \in SeqCtx : SubscribeWriteEmr(c) /\ Alone(c)
    \/ \E c \in SeqCtx : SubscribeReadImr(c) /\ Alone(c)
    \/ \E c \in SeqCtx : SubscribeWriteImr(c) /\ Alone(c)
    \/ \E c \in SeqCtx : SubscribeClearPending(c) /\ Alone(c)
    \/ \E c \in SeqCtx : SubscribeStoreCtx(c) /\ Alone(c)
    \/ \E c \in SeqCtx : SubscribeStoreCallback(c) /\ Alone(c)
    \/ \E c \in SeqCtx : Return(c) /\ Alone(c)
    \/ \E c \in SeqCtx : UnsubscribeAny(c, SeqPins) /\ Alone(c)
    \/ \E c \in SeqCtx : UnsubscribeOwner(c) /\ Alone(c)
    \/ \E c \in SeqCtx : UnsubscribeReadImr(c) /\ Alone(c)
    \/ \E c \in SeqCtx : UnsubscribeWriteImr(c) /\ Alone(c)
    \/ \E c \in SeqCtx : UnsubscribeClearPending(c) /\ Alone(c)
    \/ \E c \in SeqCtx : UnsubscribeClearCallback(c) /\ Alone(c)
    \/ \E c \in SeqCtx : UnsubscribeClearCtx(c) /\ Alone(c)
    \/ \E c \in SeqCtx : UnsubscribeRelease(c) /\ Alone(c)
    \/ \E q \in SeqIrq : IrqEntry(q) /\ Alone(q)
    \/ \E q \in SeqIrq : HandlePending(q) /\ Alone(q)
    \/ \E q \in SeqIrq : HandleClear(q) /\ Alone(q)
    \/ \E q \in SeqIrq : HandleTest(q) /\ Alone(q)
    \/ \E q \in SeqIrq : HandleLoad(q) /\ Alone(q)
    \/ \E q \in SeqIrq : HandleCall(q) /\ Alone(q)
    \/ \E q \in SeqIrq : CallbackReturn(q) /\ Alone(q)
    \/ \E n \in SeqLines : Edge(n)

SpecSeq == Init /\ [][NextSeq]_vars

----------------------------------------------------------------------------
(* SpecRace: two threads and the application interrupt call subscribe on    *)
(* line 0 and nothing else, under preemptive scheduling.                    *)

RaceCtx == {"thr", "thr2", "isr"}

RaceSubs == {Args("GPIOA", 0, TRUE, FALSE, "cb1", "x1"),
             Args("GPIOB", 0, TRUE, FALSE, "cb2", "x2")}

NextRace ==
    \/ \E c \in RaceCtx : SubscribeAny(c, RaceSubs) /\ Runnable(c)
    \/ \E c \in RaceCtx : SubscribeClaim(c) /\ Runnable(c)
    \/ \E c \in RaceCtx : SubscribeReadExticr(c) /\ Runnable(c)
    \/ \E c \in RaceCtx : SubscribeWriteExticr(c) /\ Runnable(c)
    \/ \E c \in RaceCtx : SubscribeReadRtsr(c) /\ Runnable(c)
    \/ \E c \in RaceCtx : SubscribeWriteRtsr(c) /\ Runnable(c)
    \/ \E c \in RaceCtx : SubscribeReadFtsr(c) /\ Runnable(c)
    \/ \E c \in RaceCtx : SubscribeWriteFtsr(c) /\ Runnable(c)
    \/ \E c \in RaceCtx : SubscribeReadEmr(c) /\ Runnable(c)
    \/ \E c \in RaceCtx : SubscribeWriteEmr(c) /\ Runnable(c)
    \/ \E c \in RaceCtx : SubscribeReadImr(c) /\ Runnable(c)
    \/ \E c \in RaceCtx : SubscribeWriteImr(c) /\ Runnable(c)
    \/ \E c \in RaceCtx : SubscribeClearPending(c) /\ Runnable(c)
    \/ \E c \in RaceCtx : SubscribeStoreCtx(c) /\ Runnable(c)
    \/ \E c \in RaceCtx : SubscribeStoreCallback(c) /\ Runnable(c)
    \/ \E c \in RaceCtx : Return(c) /\ Runnable(c)

SpecRace == Init /\ [][NextRace]_vars

----------------------------------------------------------------------------
(* SpecGroup: subscriptions of port A on the lines 5..9, the entry point    *)
(* they share and the entry point of lines 10..15, operations one after     *)
(* the other; the inputs of lines 6 and 7 change level.                     *)

GroupIrq == {"EXTI9_5", "EXTI15_10"}
GroupLines == 5 .. 9
GroupEdges == {6, 7}
GroupSubs == {Args("GPIOA", n, TRUE, FALSE, "cb1", "x1") : n \in GroupLines}

NextGroup ==
    \/ \E c \in SeqCtx : SubscribeAny(c, GroupSubs) /\ Alone(c)
    \/ \E c \in SeqCtx : SubscribeClaim(c) /\ Alone(c)
    \/ \E c \in SeqCtx : SubscribeReadExticr(c) /\ Alone(c)
    \/ \E c \in SeqCtx : SubscribeWriteExticr(c) /\ Alone(c)
    \/ \E c \in SeqCtx : SubscribeReadRtsr(c) /\ Alone(c)
    \/ \E c \in SeqCtx : SubscribeWriteRtsr(c) /\ Alone(c)
    \/ \E c \in SeqCtx : SubscribeReadFtsr(c) /\ Alone(c)
    \/ \E c \in SeqCtx : SubscribeWriteFtsr(c) /\ Alone(c)
    \/ \E c \in SeqCtx : SubscribeReadEmr(c) /\ Alone(c)
    \/ \E c \in SeqCtx : SubscribeWriteEmr(c) /\ Alone(c)
    \/ \E c \in SeqCtx : SubscribeReadImr(c) /\ Alone(c)
    \/ \E c \in SeqCtx : SubscribeWriteImr(c) /\ Alone(c)
    \/ \E c \in SeqCtx : SubscribeClearPending(c) /\ Alone(c)
    \/ \E c \in SeqCtx : SubscribeStoreCtx(c) /\ Alone(c)
    \/ \E c \in SeqCtx : SubscribeStoreCallback(c) /\ Alone(c)
    \/ \E c \in SeqCtx : Return(c) /\ Alone(c)
    \/ \E q \in GroupIrq : IrqEntry(q) /\ Alone(q)
    \/ \E q \in GroupIrq : HandlePending(q) /\ Alone(q)
    \/ \E q \in GroupIrq : HandleClear(q) /\ Alone(q)
    \/ \E q \in GroupIrq : HandleTest(q) /\ Alone(q)
    \/ \E q \in GroupIrq : HandleLoad(q) /\ Alone(q)
    \/ \E q \in GroupIrq : HandleCall(q) /\ Alone(q)
    \/ \E q \in GroupIrq : CallbackReturn(q) /\ Alone(q)
    \/ \E n \in GroupEdges : Edge(n)

SpecGroup == Init /\ [][NextGroup]_vars

----------------------------------------------------------------------------
(* SpecCalls: a thread and the application interrupt that preempts it call  *)
(* subscribe and unsubscribe on PA0, PB0 (line 0) and PA1 (line 1); no      *)
(* handler runs and no input changes.                                       *)

CallsCtx == {"thr", "isr"}
CallsSubs == {Args("GPIOA", 0, TRUE, FALSE, "cb1", "x1"),
              Args("GPIOB", 0, FALSE, TRUE, "cb2", "x2"),
              Args("GPIOA", 1, TRUE, TRUE, "cb2", "x2")}
CallsPins == {<<"GPIOA", 0>>, <<"GPIOB", 0>>, <<"GPIOA", 1>>}

NextCalls ==
    \/ \E c \in CallsCtx : SubscribeAny(c, CallsSubs) /\ Runnable(c)
    \/ \E c \in CallsCtx : SubscribeClaim(c) /\ Runnable(c)
    \/ \E c \in CallsCtx : SubscribeReadExticr(c) /\ Runnable(c)
    \/ \E c \in CallsCtx : SubscribeWriteExticr(c) /\ Runnable(c)
    \/ \E c \in CallsCtx : SubscribeReadRtsr(c) /\ Runnable(c)
    \/ \E c \in CallsCtx : SubscribeWriteRtsr(c) /\ Runnable(c)
    \/ \E c \in CallsCtx : SubscribeReadFtsr(c) /\ Runnable(c)
    \/ \E c \in CallsCtx : SubscribeWriteFtsr(c) /\ Runnable(c)
    \/ \E c \in CallsCtx : SubscribeReadEmr(c) /\ Runnable(c)
    \/ \E c \in CallsCtx : SubscribeWriteEmr(c) /\ Runnable(c)
    \/ \E c \in CallsCtx : SubscribeReadImr(c) /\ Runnable(c)
    \/ \E c \in CallsCtx : SubscribeWriteImr(c) /\ Runnable(c)
    \/ \E c \in CallsCtx : SubscribeClearPending(c) /\ Runnable(c)
    \/ \E c \in CallsCtx : SubscribeStoreCtx(c) /\ Runnable(c)
    \/ \E c \in CallsCtx : SubscribeStoreCallback(c) /\ Runnable(c)
    \/ \E c \in CallsCtx : Return(c) /\ Runnable(c)
    \/ \E c \in CallsCtx : UnsubscribeAny(c, CallsPins) /\ Runnable(c)
    \/ \E c \in CallsCtx : UnsubscribeOwner(c) /\ Runnable(c)
    \/ \E c \in CallsCtx : UnsubscribeReadImr(c) /\ Runnable(c)
    \/ \E c \in CallsCtx : UnsubscribeWriteImr(c) /\ Runnable(c)
    \/ \E c \in CallsCtx : UnsubscribeClearPending(c) /\ Runnable(c)
    \/ \E c \in CallsCtx : UnsubscribeClearCallback(c) /\ Runnable(c)
    \/ \E c \in CallsCtx : UnsubscribeClearCtx(c) /\ Runnable(c)
    \/ \E c \in CallsCtx : UnsubscribeRelease(c) /\ Runnable(c)

SpecCalls == Init /\ [][NextCalls]_vars

----------------------------------------------------------------------------
(* SpecPreempt: the application interrupt calls subscribe and unsubscribe   *)
(* on PA0 and PB0 and preempts the EXTI0 handler at any of its steps; the   *)
(* input of line 0 changes level.                                           *)

PreemptCtx == {"isr"}
PreemptIrq == {"EXTI0"}
PreemptSubs == {Args("GPIOA", 0, TRUE, FALSE, "cb1", "x1"),
                Args("GPIOB", 0, TRUE, TRUE, "cb2", "x2")}
PreemptPins == {<<"GPIOA", 0>>, <<"GPIOB", 0>>}
PreemptLines == {0}

NextPreempt ==
    \/ \E c \in PreemptCtx : SubscribeAny(c, PreemptSubs) /\ Runnable(c)
    \/ \E c \in PreemptCtx : SubscribeClaim(c) /\ Runnable(c)
    \/ \E c \in PreemptCtx : SubscribeReadExticr(c) /\ Runnable(c)
    \/ \E c \in PreemptCtx : SubscribeWriteExticr(c) /\ Runnable(c)
    \/ \E c \in PreemptCtx : SubscribeReadRtsr(c) /\ Runnable(c)
    \/ \E c \in PreemptCtx : SubscribeWriteRtsr(c) /\ Runnable(c)
    \/ \E c \in PreemptCtx : SubscribeReadFtsr(c) /\ Runnable(c)
    \/ \E c \in PreemptCtx : SubscribeWriteFtsr(c) /\ Runnable(c)
    \/ \E c \in PreemptCtx : SubscribeReadEmr(c) /\ Runnable(c)
    \/ \E c \in PreemptCtx : SubscribeWriteEmr(c) /\ Runnable(c)
    \/ \E c \in PreemptCtx : SubscribeReadImr(c) /\ Runnable(c)
    \/ \E c \in PreemptCtx : SubscribeWriteImr(c) /\ Runnable(c)
    \/ \E c \in PreemptCtx : SubscribeClearPending(c) /\ Runnable(c)
    \/ \E c \in PreemptCtx : SubscribeStoreCtx(c) /\ Runnable(c)
    \/ \E c \in PreemptCtx : SubscribeStoreCallback(c) /\ Runnable(c)
    \/ \E c \in PreemptCtx : Return(c) /\ Runnable(c)
    \/ \E c \in PreemptCtx : UnsubscribeAny(c, PreemptPins) /\ Runnable(c)
    \/ \E c \in PreemptCtx : UnsubscribeOwner(c) /\ Runnable(c)
    \/ \E c \in PreemptCtx : UnsubscribeReadImr(c) /\ Runnable(c)
    \/ \E c \in PreemptCtx : UnsubscribeWriteImr(c) /\ Runnable(c)
    \/ \E c \in PreemptCtx : UnsubscribeClearPending(c) /\ Runnable(c)
    \/ \E c \in PreemptCtx : UnsubscribeClearCallback(c) /\ Runnable(c)
    \/ \E c \in PreemptCtx : UnsubscribeClearCtx(c) /\ Runnable(c)
    \/ \E c \in PreemptCtx : UnsubscribeRelease(c) /\ Runnable(c)
    \/ \E q \in PreemptIrq : IrqEntry(q) /\ Runnable(q)
    \/ \E q \in PreemptIrq : HandlePending(q) /\ Runnable(q)
    \/ \E q \in PreemptIrq : HandleClear(q) /\ Runnable(q)
    \/ \E q \in PreemptIrq : HandleTest(q) /\ Runnable(q)
    \/ \E q \in PreemptIrq : HandleLoad(q) /\ Runnable(q)
    \/ \E q \in PreemptIrq : HandleCall(q) /\ Runnable(q)
    \/ \E q \in PreemptIrq : CallbackReturn(q) /\ Runnable(q)
    \/ \E n \in PreemptLines : Edge(n)

SpecPreempt == Init /\ [][NextPreempt]_vars

----------------------------------------------------------------------------
(* SpecLive: a thread subscribes on line 0 and never unsubscribes; the      *)
(* EXTI0 handler preempts it; the input of line 0 changes level at any      *)
(* time.  The NVIC serves a raised interrupt: the handler is entered while  *)
(* its request stands and, once entered, runs to its return.                *)

LiveCtx == {"thr"}
LiveIrq == {"EXTI0"}
LiveSubs == {Args("GPIOA", 0, TRUE, FALSE, "cb1", "x1"),
             Args("GPIOB", 0, TRUE, TRUE, "cb2", "x2")}
LiveLines == {0}

NextLive ==
    \/ \E c \in LiveCtx : SubscribeAny(c, LiveSubs) /\ Runnable(c)
    \/ \E c \in LiveCtx : SubscribeClaim(c) /\ Runnable(c)
    \/ \E c \in LiveCtx : SubscribeReadExticr(c) /\ Runnable(c)
    \/ \E c \in LiveCtx : SubscribeWriteExticr(c) /\ Runnable(c)
    \/ \E c \in LiveCtx : SubscribeReadRtsr(c) /\ Runnable(c)
    \/ \E c \in LiveCtx : SubscribeWriteRtsr(c) /\ Runnable(c)
    \/ \E c \in LiveCtx : SubscribeReadFtsr(c) /\ Runnable(c)
    \/ \E c \in LiveCtx : SubscribeWriteFtsr(c) /\ Runnable(c)
    \/ \E c \in LiveCtx : SubscribeReadEmr(c) /\ Runnable(c)
    \/ \E c \in LiveCtx : SubscribeWriteEmr(c) /\ Runnable(c)
    \/ \E c \in LiveCtx : SubscribeReadImr(c) /\ Runnable(c)
    \/ \E c \in LiveCtx : SubscribeWriteImr(c) /\ Runnable(c)
    \/ \E c \in LiveCtx : SubscribeClearPending(c) /\ Runnable(c)
    \/ \E c \in LiveCtx : SubscribeStoreCtx(c) /\ Runnable(c)
    \/ \E c \in LiveCtx : SubscribeStoreCallback(c) /\ Runnable(c)
    \/ \E c \in LiveCtx : Return(c) /\ Runnable(c)
    \/ \E q \in LiveIrq : IrqEntry(q) /\ Runnable(q)
    \/ \E q \in LiveIrq : HandlePending(q) /\ Runnable(q)
    \/ \E q \in LiveIrq : HandleClear(q) /\ Runnable(q)
    \/ \E q \in LiveIrq : HandleTest(q) /\ Runnable(q)
    \/ \E q \in LiveIrq : HandleLoad(q) /\ Runnable(q)
    \/ \E q \in LiveIrq : HandleCall(q) /\ Runnable(q)
    \/ \E q \in LiveIrq : CallbackReturn(q) /\ Runnable(q)
    \/ \E n \in LiveLines : Edge(n)

\* The steps the NVIC owes entry point q: its entry while a line it polls
\* requests the interrupt, and every step of a handler that has been entered.
Served(q) ==
    \/ /\ IrqEntry(q)
       /\ \E i \in 1 .. Len(Handler(q)) : Raised(Handler(q)[i])
    \/ HandlePending(q)
    \/ HandleClear(q)
    \/ HandleTest(q)
    \/ HandleLoad(q)
    \/ HandleCall(q)
    \/ CallbackReturn(q)

SpecLive == Init /\ [][NextLive]_vars /\ \A q \in LiveIrq : WF_vars(Served(q) /\ Runnable(q))

----------------------------------------------------------------------------
(* SpecIrq: a thread calls subscribe and unsubscribe on PA0 and PB0; the    *)
(* EXTI0 handler preempts it at any of its steps; the input of line 0       *)
(* changes level.                                                           *)

IrqCallers == {"thr"}
IrqHandlers == {"EXTI0"}
IrqSubs == {Args("GPIOA", 0, TRUE, FALSE, "cb1", "x1"),
            Args("GPIOB", 0, TRUE, TRUE, "cb2", "x2")}
IrqPins == {<<"GPIOA", 0>>, <<"GPIOB", 0>>}
IrqLines == {0}

NextIrq ==
    \/ \E c \in IrqCallers : SubscribeAny(c, IrqSubs) /\ Runnable(c)
    \/ \E c \in IrqCallers : SubscribeClaim(c) /\ Runnable(c)
    \/ \E c \in IrqCallers : SubscribeReadExticr(c) /\ Runnable(c)
    \/ \E c \in IrqCallers : SubscribeWriteExticr(c) /\ Runnable(c)
    \/ \E c \in IrqCallers : SubscribeReadRtsr(c) /\ Runnable(c)
    \/ \E c \in IrqCallers : SubscribeWriteRtsr(c) /\ Runnable(c)
    \/ \E c \in IrqCallers : SubscribeReadFtsr(c) /\ Runnable(c)
    \/ \E c \in IrqCallers : SubscribeWriteFtsr(c) /\ Runnable(c)
    \/ \E c \in IrqCallers : SubscribeReadEmr(c) /\ Runnable(c)
    \/ \E c \in IrqCallers : SubscribeWriteEmr(c) /\ Runnable(c)
    \/ \E c \in IrqCallers : SubscribeReadImr(c) /\ Runnable(c)
    \/ \E c \in IrqCallers : SubscribeWriteImr(c) /\ Runnable(c)
    \/ \E c \in IrqCallers : SubscribeClearPending(c) /\ Runnable(c)
    \/ \E c \in IrqCallers : SubscribeStoreCtx(c) /\ Runnable(c)
    \/ \E c \in IrqCallers : SubscribeStoreCallback(c) /\ Runnable(c)
    \/ \E c \in IrqCallers : Return(c) /\ Runnable(c)
    \/ \E c \in IrqCallers : UnsubscribeAny(c, IrqPins) /\ Runnable(c)
    \/ \E c \in IrqCallers : UnsubscribeOwner(c) /\ Runnable(c)
    \/ \E c \in IrqCallers : UnsubscribeReadImr(c) /\ Runnable(c)
    \/ \E c \in IrqCallers : UnsubscribeWriteImr(c) /\ Runnable(c)
    \/ \E c \in IrqCallers : UnsubscribeClearPending(c) /\ Runnable(c)
    \/ \E c \in IrqCallers : UnsubscribeClearCallback(c) /\ Runnable(c)
    \/ \E c \in IrqCallers : UnsubscribeClearCtx(c) /\ Runnable(c)
    \/ \E c \in IrqCallers : UnsubscribeRelease(c) /\ Runnable(c)
    \/ \E q \in IrqHandlers : IrqEntry(q) /\ Runnable(q)
    \/ \E q \in IrqHandlers : HandlePending(q) /\ Runnable(q)
    \/ \E q \in IrqHandlers : HandleClear(q) /\ Runnable(q)
    \/ \E q \in IrqHandlers : HandleTest(q) /\ Runnable(q)
    \/ \E q \in IrqHandlers : HandleLoad(q) /\ Runnable(q)
    \/ \E q \in IrqHandlers : HandleCall(q) /\ Runnable(q)
    \/ \E q \in IrqHandlers : CallbackReturn(q) /\ Runnable(q)
    \/ \E n \in IrqLines : Edge(n)

SpecIrq == Init /\ [][NextIrq]_vars

----------------------------------------------------------------------------
(* SpecNone: one caller, operations one after the other, on the handle PA0  *)
(* and on the unbound handle Stm32Gpio::none (null port, pin number 0); the *)
(* EXTI0 handler; the input of line 0 changes level.                        *)

NoneCtx == {"thr"}
NoneIrq == {"EXTI0"}
NoneSubs == {Args(Null, 0, TRUE, FALSE, "cb1", "x1"),
             Args("GPIOA", 0, TRUE, FALSE, "cb2", "x2")}
NonePins == {<<Null, 0>>, <<"GPIOA", 0>>}
NoneLines == {0}

NextNone ==
    \/ \E c \in NoneCtx : SubscribeAny(c, NoneSubs) /\ Alone(c)
    \/ \E c \in NoneCtx : SubscribeClaim(c) /\ Alone(c)
    \/ \E c \in NoneCtx : SubscribeReadExticr(c) /\ Alone(c)
    \/ \E c \in NoneCtx : SubscribeWriteExticr(c) /\ Alone(c)
    \/ \E c \in NoneCtx : SubscribeReadRtsr(c) /\ Alone(c)
    \/ \E c \in NoneCtx : SubscribeWriteRtsr(c) /\ Alone(c)
    \/ \E c \in NoneCtx : SubscribeReadFtsr(c) /\ Alone(c)
    \/ \E c \in NoneCtx : SubscribeWriteFtsr(c) /\ Alone(c)
    \/ \E c \in NoneCtx : SubscribeReadEmr(c) /\ Alone(c)
    \/ \E c \in NoneCtx : SubscribeWriteEmr(c) /\ Alone(c)
    \/ \E c \in NoneCtx : SubscribeReadImr(c) /\ Alone(c)
    \/ \E c \in NoneCtx : SubscribeWriteImr(c) /\ Alone(c)
    \/ \E c \in NoneCtx : SubscribeClearPending(c) /\ Alone(c)
    \/ \E c \in NoneCtx : SubscribeStoreCtx(c) /\ Alone(c)
    \/ \E c \in NoneCtx : SubscribeStoreCallback(c) /\ Alone(c)
    \/ \E c \in NoneCtx : Return(c) /\ Alone(c)
    \/ \E c \in NoneCtx : UnsubscribeAny(c, NonePins) /\ Alone(c)
    \/ \E c \in NoneCtx : UnsubscribeOwner(c) /\ Alone(c)
    \/ \E c \in NoneCtx : UnsubscribeReadImr(c) /\ Alone(c)
    \/ \E c \in NoneCtx : UnsubscribeWriteImr(c) /\ Alone(c)
    \/ \E c \in NoneCtx : UnsubscribeClearPending(c) /\ Alone(c)
    \/ \E c \in NoneCtx : UnsubscribeClearCallback(c) /\ Alone(c)
    \/ \E c \in NoneCtx : UnsubscribeClearCtx(c) /\ Alone(c)
    \/ \E c \in NoneCtx : UnsubscribeRelease(c) /\ Alone(c)
    \/ \E q \in NoneIrq : IrqEntry(q) /\ Alone(q)
    \/ \E q \in NoneIrq : HandlePending(q) /\ Alone(q)
    \/ \E q \in NoneIrq : HandleClear(q) /\ Alone(q)
    \/ \E q \in NoneIrq : HandleTest(q) /\ Alone(q)
    \/ \E q \in NoneIrq : HandleLoad(q) /\ Alone(q)
    \/ \E q \in NoneIrq : HandleCall(q) /\ Alone(q)
    \/ \E q \in NoneIrq : CallbackReturn(q) /\ Alone(q)
    \/ \E n \in NoneLines : Edge(n)

SpecNone == Init /\ [][NextNone]_vars

----------------------------------------------------------------------------
(* Properties                                                               *)

\* The slot contents a successful subscribe with arguments a leaves.
Binding(a) == [port |-> a.port, callback |-> a.callback, ctx |-> a.ctx]

\* Context c is inside subscribe, past a successful claim.
Claimed(c) ==
    /\ call[c].op = "subscribe"
    /\ pc[c] \in {"s_rd_exticr", "s_wr_exticr", "s_rd_rtsr", "s_wr_rtsr", "s_rd_ftsr",
                  "s_wr_ftsr", "s_rd_emr", "s_wr_emr", "s_rd_imr", "s_wr_imr", "s_clr",
                  "s_ctx", "s_cb"}

\* Context c is at the return of subscribe with the given result.
Returning(c, res) == call[c].op = "subscribe" /\ pc[c] = "ret" /\ call[c].res = res

\* C1: while a successful subscribe is outstanding on line n (it returned
\* true and its owner has not unsubscribed), slot n holds the binding of that
\* subscribe, and a further subscribe call on line n is either still at its
\* claim or is returning false: none gets past the claim.
C1_OneSubscriberPerLine ==
    \A n \in Lines :
        held[n] # NoArgs =>
            /\ subscriptions[n] = Binding(held[n])
            /\ \A c \in AppCtx :
                  (call[c].op = "subscribe" /\ call[c].pin = n) =>
                      pc[c] = "s_cas" \/ Returning(c, "false")

\* A subscribe from the other port has been refused on a held line.
C1_Witness ==
    /\ held[0] # NoArgs
    /\ Returning("thr", "false")
    /\ call["thr"].pin = 0
    /\ call["thr"].port # held[0].port

\* C2: of the subscribe calls racing for a line, no two are past a successful
\* claim (or returning true) together, none is while an earlier success on
\* the line stands, the slot's owner is the port of the call that succeeded,
\* and a call returns false only against an owned slot.
C2_OneWinner ==
    \A c \in AppCtx :
        /\ (Claimed(c) \/ Returning(c, "true")) =>
              /\ subscriptions[Line(c)].port = call[c].port
              /\ held[Line(c)] = NoArgs
              /\ \A d \in AppCtx \ {c} :
                    call[d].pin = call[c].pin => ~(Claimed(d) \/ Returning(d, "true"))
        /\ (Returning(c, "false") /\ call[c].pin \in Lines) =>
              subscriptions[Line(c)].port \notin {Null}

\* Two threads raced on line 0 from different ports: one returns true, the
\* other false.
C2_Witness ==
    /\ Returning("thr", "true")
    /\ Returning("thr2", "false")
    /\ call["thr"].pin = 0 /\ call["thr2"].pin = 0
    /\ call["thr"].port # call["thr2"].port

\* The entry point q is at or past the load of the callback's operands for
\* the line it polls: it is about to invoke, or inside, the callback.
Invoking(q) == pc[q] \in {"d_load", "d_call", "d_run"}

\* C3: with operations run one after the other, a callback that unsubscribe
\* removed from line n is not invoked by any later handler invocation for n,
\* however many events arrive, until a subscribe stores it again.
C3_NoCallAfterUnsubscribe ==
    \A q \in IrqCtx : Invoking(q) => irq[q].cb \notin cancelled[Polled(q)]

\* An event was delivered on line 0 after its owner unsubscribed: the handler
\* found the flag pending, cleared it and is at the test of the callback.
C3_Witness ==
    /\ cancelled[0] # {}
    /\ subscriptions[0].port = Null
    /\ pc["EXTI0"] = "d_test"
    /\ pc["thr"] = "idle"

\* The callbacks removed from slot n by unsubscribe calls that have returned.
Cancelled(n) ==
    cancelled[n] \ {call[c].callback :
                       c \in {d \in AppCtx : call[d].op = "unsubscribe" /\ call[d].pin = n}}

\* C4 as claimed: once unsubscribe has returned, no invocation of the
\* callback it removed begins, under preemptive scheduling.
C4_NoCallBeginsAfterUnsubscribe ==
    [][\A q \in IrqCtx :
          (pc[q] = "d_call" /\ pc'[q] = "d_run") => irq[q].cb \notin Cancelled(Polled(q))]_vars

\* C4 amended: a handler invocation that tests subscription.callback after
\* unsubscribe removed a callback from the slot does not pick that callback up
\* unless a subscribe has stored it again: only an invocation that had tested
\* the callback before the removal can still invoke it.
C4_NoPickupAfterUnsubscribe ==
    [][\A q \in IrqCtx :
          (pc[q] = "d_test" /\ pc'[q] = "d_load") =>
              irq'[q].cb \notin cancelled[Polled(q)]]_vars

\* unsubscribe ran in the application interrupt while the EXTI0 handler was
\* preempted between its clear of the pending flag and its test of the
\* callback, and has returned.
C4_Witness ==
    /\ cancelled[0] # {}
    /\ pc["EXTI0"] = "d_test"
    /\ pc["isr"] = "idle"
    /\ pc["thr"] = "idle"
    /\ subscriptions[0].port = Null

\* Line n is held by a subscription for rising edges only.
RisingOnly(n) == held[n] # NoArgs /\ held[n].rising /\ ~held[n].falling

\* C5: on a line held by a rising-only subscription (cb, ctx), operations run
\* one after the other: a rising edge sets the pending flag, a falling edge
\* leaves the pending flags and the count of events to deliver as they were,
\* every invocation the handler makes for the line is of cb with ctx, each
\* answers an event of its own, and with every handler returned exactly the
\* event behind a still pending flag remains to be delivered.
C5_RisingEdgeInvokesOnce ==
    [][\A n \in Lines :
          RisingOnly(n) =>
              /\ due[n] >= 0
              /\ Quiet => due[n] = (IF n \in PR THEN 1 ELSE 0)
              /\ \A q \in IrqCtx :
                    (pc[q] \in {"d_call", "d_run"} /\ Polled(q) = n) =>
                        irq[q].cb = held[n].callback /\ irq[q].arg = held[n].ctx
              /\ (level[n] = 1 /\ level'[n] = 0) => (PR' = PR /\ due' = due)
              /\ (level[n] = 0 /\ level'[n] = 1) => n \in PR']_vars

\* A rising edge on line 0, held for rising edges only, has been dispatched:
\* the EXTI0 handler is inside the subscriber's callback, the flag is clear
\* and no event remains to be delivered.
C5_Witness ==
    /\ RisingOnly(0)
    /\ pc["EXTI0"] = "d_run"
    /\ irq["EXTI0"].cb = held[0].callback
    /\ irq["EXTI0"].arg = held[0].ctx
    /\ level[0] = 1
    /\ 0 \notin PR
    /\ due[0] = 0

\* The step is one of context c inside (or entering, or leaving) a call of op.
StepOf(c, op) ==
    /\ pc'[c] # pc[c]
    /\ call[c].op = op \/ call'[c].op = op

\* The line of the call the step belongs to.
StepPin(c) == IF pc[c] = "idle" THEN call'[c].pin ELSE call[c].pin

\* The registers' bits of the lines other than n are left as they were.
OthersKept(n) ==
    /\ \A m \in Lines \ {n} : subscriptions'[m] = subscriptions[m]
    /\ \A m \in Lines \ {n} :
          /\ (m \in RTSR') = (m \in RTSR)
          /\ (m \in FTSR') = (m \in FTSR)
          /\ (m \in EMR') = (m \in EMR)
          /\ (m \in IMR') = (m \in IMR)
          /\ (m \in PR') = (m \in PR)

\* C6: every step of an unsubscribe call leaves the other lines' slots and
\* register bits as they were, and a call whose port does not own the line
\* (the line is free, after an earlier unsubscribe or never subscribed, or
\* held by another port) returns from the owner check with no slot and no
\* register changed from its call to its return.
C6_UnsubscribeNoOp ==
    [][\A c \in AppCtx :
          StepOf(c, "unsubscribe") =>
              /\ OthersKept(StepPin(c))
              /\ pc[c] \in {"idle", "ret"} => UNCHANGED <<subscriptions, hw>>
              /\ (pc[c] = "u_own" /\ subscriptions[Line(c)].port # call[c].port) =>
                    /\ pc'[c] = "ret"
                    /\ call'[c].res = "noop"
                    /\ UNCHANGED <<subscriptions, hw>>
              /\ pc'[c] = "ret" =>
                    \/ call'[c].res = "noop" /\ pc[c] \in {"idle", "u_own"}
                    \/ call'[c].res = "done" /\ pc[c] = "u_port"]_vars

\* An unsubscribe of the other port's handle on held line 0 returns without
\* effect.
C6_Witness ==
    /\ pc["thr"] = "ret"
    /\ call["thr"].op = "unsubscribe"
    /\ call["thr"].res = "noop"
    /\ call["thr"].pin = 0
    /\ held[0] # NoArgs
    /\ held[0].port # call["thr"].port
    /\ subscriptions[0] = Binding(held[0])

\* C7: a subscribe on a handle whose line is outside 0 .. N_EXTI - 1 returns
\* false from the range check, and no step of the call changes a slot or a
\* routing, trigger, mask or pending register.
C7_OutOfRangeRefused ==
    [][\A c \in AppCtx :
          (StepOf(c, "subscribe") /\ StepPin(c) \notin Lines) =>
              /\ pc[c] = "idle" => pc'[c] = "ret" /\ call'[c].res = "false"
              /\ pc[c] # "idle" => pc[c] = "ret" /\ pc'[c] = "idle"
              /\ UNCHANGED <<subscriptions, hw>>]_vars

\* subscribe on line 16 is returning false while line 0 is held.
C7_Witness ==
    /\ Returning("thr", "false")
    /\ call["thr"].pin = N_EXTI
    /\ held[0] # NoArgs
    /\ subscriptions[0] = Binding(held[0])

\* The step is one of entry point q.
StepOfIrq(q) == pc'[q] # pc[q] \/ irq'[q] # irq[q]

\* C8: maybe_handle on a line whose pending flag is clear returns at once,
\* whatever the line's slot holds: the entry point goes on to its next line
\* or returns, no callback is invoked, no pending flag is cleared and no
\* slot changes.
C8_NotPendingNoOp ==
    [][\A q \in IrqCtx :
          (StepOfIrq(q) /\ pc[q] = "d_pend" /\ Polled(q) \notin PR) =>
              /\ \/ pc'[q] = "idle"
                 \/ pc'[q] = "d_pend" /\ irq'[q].idx = irq[q].idx + 1
              /\ irq'[q].cb = Null
              /\ UNCHANGED <<subscriptions, hw, due>>]_vars

\* The shared entry point is at maybe_handle(6) with line 6 bound and not
\* pending, after maybe_handle(5) found line 5 bound and not pending, while
\* line 7 is pending.
C8_Witness ==
    /\ pc["EXTI9_5"] = "d_pend"
    /\ irq["EXTI9_5"].idx = 2
    /\ held[5] # NoArgs /\ subscriptions[5] = Binding(held[5])
    /\ held[6] # NoArgs /\ subscriptions[6] = Binding(held[6])
    /\ PR = {7}

\* The entry points that poll several lines.
Grouped == {q \in IrqCtx : Len(Handler(q)) > 1}

\* C9: a grouped entry point clears a pending flag only of the line it is
\* polling and only when that flag was set, begins a callback only for an
\* event of the polled line that is still to deliver, and invokes the slot's
\* callback with the slot's ctx; with every handler returned, each held line
\* has exactly the event behind a still pending flag left to deliver.
C9_GroupedEntryPollsPending ==
    [][/\ \A q \in Grouped :
             StepOfIrq(q) =>
                 /\ PR' \subseteq PR
                 /\ PR' # PR => (pc[q] = "d_clear" /\ PR \ PR' = {Polled(q)})
                 /\ pc'[q] = "d_run" =>
                       /\ due[Polled(q)] >= 1
                       /\ due'[Polled(q)] = due[Polled(q)] - 1
                       /\ irq[q].cb = subscriptions[Polled(q)].callback
                       /\ irq[q].arg = subscriptions[Polled(q)].ctx
       /\ Quiet =>
             \A n \in Lines :
                 held[n] # NoArgs => due[n] = (IF n \in PR THEN 1 ELSE 0)]_vars

\* With callbacks bound on all of the lines 5 .. 9 and an event on line 7
\* only, the shared entry point is inside line 7's callback, no flag is
\* pending and no event is left to deliver.
C9_Witness ==
    /\ \A n \in GroupLines : held[n] # NoArgs /\ subscriptions[n] = Binding(held[n])
    /\ pc["EXTI9_5"] = "d_run"
    /\ Polled("EXTI9_5") = 7
    /\ irq["EXTI9_5"].cb = held[7].callback
    /\ PR = {}
    /\ \A n \in GroupLines : due[n] = 0
    /\ level[6] = 0

\* C10 as claimed: when unsubscribe by the line's owner returns, the line's
\* IMR bit is in the disabled state, and while the line stays free no edge
\* on it raises the interrupt.
C10_UnsubscribeMasks ==
    /\ \A c \in AppCtx :
          (call[c].op = "unsubscribe" /\ pc[c] = "ret" /\ call[c].res = "done") =>
              Line(c) \notin IMR
    /\ \A n \in Lines :
          (cancelled[n] # {} /\ subscriptions[n] = NoSub) => ~Raised(n)

\* C11 as claimed: under preemptive scheduling a store of unsubscribe into a
\* slot (callback, ctx or owner) happens only while the slot's owner is the
\* caller's port or nobody: never on a slot another port holds.
C11_ReleaseOnlyByOwner ==
    [][\A c \in AppCtx :
          (StepOf(c, "unsubscribe") /\ pc[c] \in {"u_cb", "u_ctx", "u_port"}) =>
              subscriptions[Line(c)].port \in {call[c].port, Null}]_vars

\* C12 as claimed: in every state a slot whose callback is set has its owner
\* set.
C12_CallbackImpliesOwner ==
    \A n \in Lines : subscriptions[n].callback # Null => subscriptions[n].port # Null

\* C13: under preemptive scheduling every step that changes a slot's owner
\* takes it from free to a port (the compare-and-exchange of subscribe) or
\* from a port to free (the release of unsubscribe), never from one port to
\* another.
C13_OwnerThroughFree ==
    [][\A n \in Lines :
          subscriptions'[n].port # subscriptions[n].port =>
              \/ /\ subscriptions[n].port = Null
                 /\ \E c \in AppCtx : pc[c] = "s_cas" /\ pc'[c] = "s_rd_exticr" /\ Line(c) = n
              \/ /\ subscriptions'[n].port = Null
                 /\ \E c \in AppCtx : pc[c] = "u_port" /\ pc'[c] = "ret" /\ Line(c) = n]_vars

\* Line 0 has passed from port A through free to port B: B owns it and the
\* callback of A's subscription is among those unsubscribe removed.
C13_Witness ==
    /\ subscriptions[0].port = "GPIOB"
    /\ "cb1" \in cancelled[0]
    /\ pc["thr"] = "idle" /\ pc["isr"] = "idle"

\* C14 as claimed: whenever the handler begins an invocation for line n, the
\* callback and the argument are those of one subscribe call on line n, with
\* subscribe and unsubscribe running in a context that preempts the handler.
C14_CtxOfSameSubscribe ==
    [][\A q \in IrqCtx :
          (pc[q] = "d_call" /\ pc'[q] = "d_run") =>
              \E a \in PreemptSubs :
                  /\ a.pin = Polled(q)
                  /\ a.callback = irq[q].cb
                  /\ a.ctx = irq[q].arg]_vars

\* An event of actively subscribed line 0 is undelivered while the EXTI0
\* handler is inside the callback: the pending flag was set after the
\* handler cleared it.
C15_EdgeDuringCallback ==
    /\ pc["EXTI0"] = "d_run"
    /\ held[0] # NoArgs
    /\ subscriptions[0] = Binding(held[0])
    /\ 0 \in PR

\* C15: the return from the callback and from maybe_handle leaves the
\* pending flags as they are, and an edge that set the pending flag of the
\* actively subscribed line 0 while its callback was executing leads, with
\* the interrupt served, to a further invocation of that callback.
C15_EdgeNotLost ==
    /\ [][\A q \in IrqCtx : (pc[q] = "d_run" /\ pc'[q] # "d_run") => PR' = PR]_vars
    /\ C15_EdgeDuringCallback ~>
          (pc["EXTI0"] = "d_call" /\ irq["EXTI0"].cb = held[0].callback
                                  /\ irq["EXTI0"].arg = held[0].ctx)

\* The edge arrived during the callback of a both-edges subscription: the
\* flag is pending again and one event is left to deliver.
C15_Witness ==
    /\ C15_EdgeDuringCallback
    /\ held[0].falling
    /\ due[0] = 1

\* C16: while a subscribe call on line n is between its successful claim and
\* its store of the callback, the slot's callback is null and no handler
\* that preempts the call gets past its test of the callback for line n: the
\* handler clears the pending flag and returns without an invocation.
C16_NoCallbackBeforeStore ==
    \A c \in AppCtx :
        Claimed(c) =>
            /\ subscriptions[Line(c)].callback = Null
            /\ \A q \in IrqCtx :
                  (pc[q] # "idle" /\ Polled(q) = Line(c)) =>
                      pc[q] \in {"d_pend", "d_clear", "d_test"}

\* The EXTI0 handler preempted a subscribe on line 0 that has configured the
\* line and cleared the pending flag but not yet stored the callback; an
\* edge has set the flag and the handler is at its test of the callback.
C16_Witness ==
    /\ Claimed("thr")
    /\ pc["thr"] = "s_cb"
    /\ Line("thr") = 0
    /\ pc["EXTI0"] = "d_test"
    /\ due[0] = 1

\* C17: a subscribe on a line in range returns false exactly from a failed
\* compare-and-exchange on an owned slot, whoever owns it, and no step of
\* such a call (the call, the failed exchange, the return) changes a slot or
\* a routing, trigger, mask or pending register.
C17_FailedSubscribeChangesNothing ==
    [][\A c \in AppCtx :
          (StepOf(c, "subscribe") /\ StepPin(c) \in Lines) =>
              /\ pc[c] \in {"idle", "ret"} => UNCHANGED <<subscriptions, hw>>
              /\ (pc[c] = "s_cas" /\ subscriptions[Line(c)].port # Null) =>
                    /\ pc'[c] = "ret"
                    /\ call'[c].res = "false"
                    /\ UNCHANGED <<subscriptions, hw>>
              /\ (pc'[c] = "ret" /\ call'[c].res = "false") =>
                    (pc[c] = "s_cas" /\ subscriptions[Line(c)].port # Null)]_vars

\* A second subscribe of the port that already holds line 0 is returning
\* false while an event is pending on the line.
C17_Witness ==
    /\ Returning("thr", "false")
    /\ call["thr"].pin = 0
    /\ held[0] # NoArgs
    /\ held[0].port = call["thr"].port
    /\ subscriptions[0] = Binding(held[0])
    /\ 0 \in PR

\* The routing field of line n in SYSCFG->EXTICR.
Routing(n) == EXTICR[n \div 4][n % 4]

\* C18: while a successful subscribe is outstanding on line n, with
\* operations run one after the other, the line's rising and falling
\* trigger bits equal the subscribe's two flags, whatever was there before,
\* and its routing selects the subscriber's port; with both flags false no
\* pending flag is raised, no event is due and no handler reaches the
\* callback.
C18_TriggersAsSubscribed ==
    \A n \in Lines :
        held[n] # NoArgs =>
            /\ (n \in RTSR) = held[n].rising
            /\ (n \in FTSR) = held[n].falling
            /\ Routing(n) = GPIO_GET_INDEX(held[n].port)
            /\ (~held[n].rising /\ ~held[n].falling) =>
                  /\ n \notin PR
                  /\ due[n] = 0
                  /\ \A q \in IrqCtx : Invoking(q) => Polled(q) # n

\* Port A holds line 0 with neither trigger selected, after a subscription
\* of port B whose callback unsubscribe removed; the input is high.
C18_Witness ==
    /\ held[0] # NoArgs
    /\ ~held[0].rising /\ ~held[0].falling
    /\ held[0].port = "GPIOA"
    /\ held[0].callback = "cb1"
    /\ "cb2" \in cancelled[0]
    /\ level[0] = 1
    /\ Quiet

\* The routing field and the trigger and mask bits of the lines other than n
\* are left as they were.
ConfigOfOthersKept(n) ==
    \A m \in Lines \ {n} :
        /\ EXTICR'[m \div 4][m % 4] = EXTICR[m \div 4][m % 4]
        /\ (m \in RTSR') = (m \in RTSR)
        /\ (m \in FTSR') = (m \in FTSR)
        /\ (m \in EMR') = (m \in EMR)
        /\ (m \in IMR') = (m \in IMR)

\* C19 as claimed: under preemptive scheduling no step of subscribe or
\* unsubscribe on line n changes the routing, trigger or mask configuration
\* of another line.
C19_OtherLinesConfigKept ==
    [][\A c \in AppCtx :
          (StepOf(c, "subscribe") \/ StepOf(c, "unsubscribe")) =>
              ConfigOfOthersKept(StepPin(c))]_vars

\* C20 as claimed: a subscribe on a line in range, the null-port handle
\* included, stores its callback and returns true only while the slot of its
\* line is owned by a port.
C20_TrueMeansOwned ==
    \A c \in AppCtx :
        (call[c].op = "subscribe" /\ pc[c] = "ret" /\ call[c].res = "true") =>
            /\ subscriptions[Line(c)].callback = call[c].callback
            /\ subscriptions[Line(c)].port # Null

====
